---- MODULE Spec2Model ----
(***************************************************************************)
(* AbstractService (src/src/AbstractService.ts) over a DynamoDB table.     *)
(*                                                                         *)
(* The state is the remote table and the record of the last service call   *)
(* (its inputs, the requests it sent, its result or error).  Every service *)
(* method is an operator that builds its request(s) as the code does and   *)
(* hands them to an operator modelling the DynamoDB call it awaits.        *)
(*                                                                         *)
(* Encoding of JavaScript values: numbers are integers >= 0, the value     *)
(* `undefined` is Undefined and `null` is Null; an option that names an    *)
(* attribute and is not supplied is NoAttr; an absent object is Nil.       *)
(***************************************************************************)
EXTENDS Integers, Sequences, FiniteSets, TLC

VARIABLES hasRange, table, last

vars == <<hasRange, table, last>>

----------------------------------------------------------------------------
(* Bounds of the model *)

MaxRange == 1
MaxItems == 4
KVItems == 2
ScanPage == 2
MaxLimit == 3
MaxKeys == 201
MaxArray == 12
MaxSize == 8

(* JavaScript values *)

Undefined == -1
Null == -2
NoAttr == "undefined"
NoIndex == "undefined"
Nil == [nil |-> TRUE]

NoError == "none"
ValidationException == "ValidationException"
ServiceError == "QueryBetween start value is greater than end value"

Truthy(v) == v \notin {Undefined, Null, 0}
Defined(v) == v \notin {Undefined, Null}
TruthyName(n) == n # NoAttr
DefinedName(n) == n # NoAttr

(* The tables of the test setup: Test (hash key id, index TestIndex on     *)
(* secondId) and TestRange (hash key id, range key secondId).              *)

HashAttr == "id"
RangeAttr == "secondId"
TestIndex == "TestIndex"
IndexHashAttr == "secondId"

Hashes == {1, 2}
Ranges == 0 .. MaxRange
Names == {"a", "b"}
Tags == {"x"}

KeyAttrs == IF hasRange THEN {HashAttr, RangeAttr} ELSE {HashAttr}

Min(a, b) == IF a < b THEN a ELSE b

Lookup(obj, a) == IF a \in DOMAIN obj THEN obj[a] ELSE Undefined

With(f, a, v) == [x \in DOMAIN f \cup {a} |-> IF x = a THEN v ELSE f[x]]

Only(a, v) == [x \in {a} |-> v]

NamePh(p) == <<"#", p>>
ValuePh(p) == <<":", p>>

ItemKey(it) == [a \in KeyAttrs |-> it[a]]

RangeOf(it) == IF hasRange THEN it[RangeAttr] ELSE 0

RankBase == MaxKeys + MaxRange + 2

Rank(k) == k[HashAttr] * RankBase + (IF RangeAttr \in DOMAIN k /\ hasRange THEN k[RangeAttr] ELSE 0)

RECURSIVE SortByRank(_)
SortByRank(S) ==
    IF S = {} THEN <<>>
    ELSE LET m == CHOOSE x \in S : \A y \in S : Rank(x) <= Rank(y)
         IN <<m>> \o SortByRank(S \ {m})

Reverse(s) == [i \in 1 .. Len(s) |-> s[Len(s) + 1 - i]]

Range(s) == {s[i] : i \in 1 .. Len(s)}

----------------------------------------------------------------------------
(* DynamoDB: the remote calls the service awaits *)

ValidKey(Key) ==
    /\ DOMAIN Key = KeyAttrs
    /\ \A a \in DOMAIN Key : Defined(Key[a])

Stored(tbl, Key) == {it \in tbl : ItemKey(it) = Key}

(* Every placeholder an expression uses is defined, and none is defined    *)
(* that the expression does not use.                                       *)
PlaceholdersOk(usedNames, usedValues, names, values) ==
    /\ DOMAIN names = usedNames
    /\ DOMAIN values = usedValues

(* UpdateItem with ReturnValues ALL_NEW *)
RemoteUpdate(tbl, req) ==
    LET clauses == req.UpdateExpression
        names == req.ExpressionAttributeNames
        values == req.ExpressionAttributeValues
        idx == 1 .. Len(clauses)
        ok == /\ ValidKey(req.Key)
              /\ Len(clauses) > 0
              /\ PlaceholdersOk({clauses[i].name : i \in idx},
                                {clauses[i].value : i \in idx}, names, values)
              /\ \A i \in idx : names[clauses[i].name] \notin KeyAttrs
              /\ \A i, j \in idx : names[clauses[i].name] = names[clauses[j].name] => i = j
    IN IF ~ok THEN [ok |-> FALSE, table |-> tbl, Attributes |-> Nil]
       ELSE LET old == Stored(tbl, req.Key)
                base == IF old = {} THEN req.Key ELSE CHOOSE it \in old : TRUE
                set == {names[clauses[i].name] : i \in idx}
                valueOf(a) == LET i == CHOOSE j \in idx : names[clauses[j].name] = a
                              IN values[clauses[i].value]
                new == [a \in DOMAIN base \cup set |->
                          IF a \in set THEN valueOf(a) ELSE base[a]]
            IN [ok |-> TRUE, table |-> {it : it \in (tbl \ old) \cup {new}}, Attributes |-> new]

(* GetItem *)
RemoteGet(tbl, req) ==
    IF ~ValidKey(req.Key) THEN [ok |-> FALSE, Item |-> Nil]
    ELSE LET old == Stored(tbl, req.Key)
         IN [ok |-> TRUE, Item |-> IF old = {} THEN Nil ELSE CHOOSE it \in old : TRUE]

(* DeleteItem *)
RemoteDelete(tbl, req) ==
    IF ~ValidKey(req.Key) THEN [ok |-> FALSE, table |-> tbl]
    ELSE [ok |-> TRUE, table |-> tbl \ Stored(tbl, req.Key)]

(* Query.  The key schema is the table's, or the index's when IndexName is  *)
(* given; a response of the model always fits in one page.                 *)
QuerySchema(req) ==
    IF req.IndexName = NoIndex
    THEN [ok |-> TRUE, hash |-> HashAttr, range |-> IF hasRange THEN RangeAttr ELSE NoAttr]
    ELSE IF req.IndexName = TestIndex /\ ~hasRange
         THEN [ok |-> TRUE, hash |-> IndexHashAttr, range |-> NoAttr]
         ELSE [ok |-> FALSE, hash |-> NoAttr, range |-> NoAttr]

CondValues(c) == IF c.kind = "between" THEN {c.lo, c.hi} ELSE {c.value}

CondHolds(c, v, values) ==
    IF c.kind = "between"
    THEN values[c.lo] <= v /\ v <= values[c.hi]
    ELSE v = values[c.value]

RemoteQuery(tbl, req) ==
    LET conds == req.KeyConditionExpression
        names == req.ExpressionAttributeNames
        values == req.ExpressionAttributeValues
        idx == 1 .. Len(conds)
        schema == QuerySchema(req)
        ok == /\ schema.ok
              /\ Len(conds) \in {1, 2}
              /\ PlaceholdersOk({conds[i].name : i \in idx},
                                UNION {CondValues(conds[i]) : i \in idx}, names, values)
              /\ \A v \in DOMAIN values : Defined(values[v])
              /\ conds[1].kind = "eq" /\ names[conds[1].name] = schema.hash
              /\ Len(conds) = 2 =>
                    /\ schema.range # NoAttr
                    /\ names[conds[2].name] = schema.range
                    /\ conds[2].kind = "between" => values[conds[2].lo] <= values[conds[2].hi]
              /\ req.Limit = Undefined \/ req.Limit >= 1
    IN IF ~ok THEN [ok |-> FALSE, Items |-> <<>>]
       ELSE LET hit == {it \in tbl :
                          /\ schema.hash \in DOMAIN it
                          /\ CondHolds(conds[1], it[schema.hash], values)
                          /\ Len(conds) = 2 => CondHolds(conds[2], it[schema.range], values)}
                asc == SortByRank(hit)
                ordered == IF req.ScanIndexForward = <<FALSE>> THEN Reverse(asc) ELSE asc
                n == IF req.Limit = Undefined THEN Len(ordered) ELSE Min(req.Limit, Len(ordered))
            IN [ok |-> TRUE, Items |-> SubSeq(ordered, 1, n)]

(* Scan: Limit bounds the items evaluated per page, before the filter; a   *)
(* page without Limit ends at the size limit of a response (ScanPage).     *)
Matches(it, filter, names, values) ==
    \A i \in 1 .. Len(filter) :
       LET a == names[filter[i].name]
       IN a \in DOMAIN it /\ it[a] = values[filter[i].value]

RemoteScan(tbl, req) ==
    LET filter == req.FilterExpression
        names == req.ExpressionAttributeNames
        values == req.ExpressionAttributeValues
        idx == 1 .. Len(filter)
        esk == req.ExclusiveStartKey
        ok == /\ PlaceholdersOk({filter[i].name : i \in idx},
                                {filter[i].value : i \in idx}, names, values)
              /\ req.Limit = Undefined \/ req.Limit >= 1
              /\ esk = Nil \/ ValidKey(esk)
    IN IF ~ok THEN [ok |-> FALSE, Items |-> <<>>, LastEvaluatedKey |-> Nil]
       ELSE LET order == SortByRank(tbl)
                After(it) == esk = Nil \/ Rank(it) > Rank(esk)
                rest == SelectSeq(order, After)
                cap == IF req.Limit = Undefined THEN ScanPage ELSE Min(req.Limit, ScanPage)
                evaluated == SubSeq(rest, 1, Min(cap, Len(rest)))
                Pass(it) == Matches(it, filter, names, values)
            IN [ok |-> TRUE,
                Items |-> SelectSeq(evaluated, Pass),
                LastEvaluatedKey |-> IF Len(evaluated) = cap
                                     THEN ItemKey(evaluated[Len(evaluated)])
                                     ELSE Nil]

(* BatchGetItem: at most DynamoDBBatchLimit keys, no key twice *)
DynamoDBBatchLimit == 100

RemoteBatchGet(tbl, req) ==
    LET Keys == req.Keys
        ok == /\ Len(Keys) >= 1
              /\ Len(Keys) <= DynamoDBBatchLimit
              /\ \A i \in 1 .. Len(Keys) : ValidKey(Keys[i])
              /\ Cardinality(Range(Keys)) = Len(Keys)
    IN IF ~ok THEN [ok |-> FALSE, Responses |-> <<>>]
       ELSE LET Found(k) == \E it \in tbl : ItemKey(it) = k
                found == SelectSeq(Keys, Found)
            IN [ok |-> TRUE,
                Responses |-> [i \in 1 .. Len(found) |->
                                 CHOOSE it \in tbl : ItemKey(it) = found[i]]]

----------------------------------------------------------------------------
(* AbstractService *)

AttrOrder == <<"id", "secondId", "name", "tag">>

(* Object.keys(obj) *)
ObjectKeys(obj) ==
    LET In(a) == a \in DOMAIN obj IN SelectSeq(AttrOrder, In)

Remove(props, a) ==
    LET Keep(p) == p # a IN SelectSeq(props, Keep)

NamesOf(props) == [x \in {NamePh(p) : p \in Range(props)} |-> x[2]]

ValuesOf(props, obj) == [x \in {ValuePh(p) : p \in Range(props)} |-> obj[x[2]]]

EqClauses(props) ==
    [i \in 1 .. Len(props) |-> [kind |-> "eq", name |-> NamePh(props[i]), value |-> ValuePh(props[i])]]

Outcome(tbl, reqs, result, err) ==
    [table |-> tbl, reqs |-> reqs, result |-> result, err |-> err]

(* _save as it would be returning the object it was given *)
_save_returnsObj(tbl, o) ==
    LET noHash == Remove(ObjectKeys(o.obj), o.hashKey)
        properties == IF DefinedName(o.rangeKey) THEN Remove(noHash, o.rangeKey) ELSE noHash
        hashOnly == Only(o.hashKey, Lookup(o.obj, o.hashKey))
        keys == IF DefinedName(o.rangeKey)
                THEN With(hashOnly, o.rangeKey, Lookup(o.obj, o.rangeKey))
                ELSE hashOnly
        updateCommand == [cmd |-> "UpdateCommand",
                          Key |-> keys,
                          UpdateExpression |-> EqClauses(properties),
                          ExpressionAttributeNames |-> NamesOf(properties),
                          ExpressionAttributeValues |-> ValuesOf(properties, o.obj),
                          ReturnValues |-> "ALL_NEW"]
        resp == RemoteUpdate(tbl, updateCommand)
    IN IF resp.ok
       THEN Outcome(resp.table, <<updateCommand>>, o.obj, NoError)
       ELSE Outcome(tbl, <<updateCommand>>, Nil, ValidationException)

(* _save as it would be replacing the stored item by the object it was given *)
_save_put(tbl, o) ==
    LET noHash == Remove(ObjectKeys(o.obj), o.hashKey)
        properties == IF DefinedName(o.rangeKey) THEN Remove(noHash, o.rangeKey) ELSE noHash
        hashOnly == Only(o.hashKey, Lookup(o.obj, o.hashKey))
        keys == IF DefinedName(o.rangeKey)
                THEN With(hashOnly, o.rangeKey, Lookup(o.obj, o.rangeKey))
                ELSE hashOnly
        updateCommand == [cmd |-> "UpdateCommand",
                          Key |-> keys,
                          UpdateExpression |-> EqClauses(properties),
                          ExpressionAttributeNames |-> NamesOf(properties),
                          ExpressionAttributeValues |-> ValuesOf(properties, o.obj),
                          ReturnValues |-> "ALL_NEW"]
        resp == RemoteUpdate(tbl, updateCommand)
    IN IF resp.ok
       THEN Outcome((tbl \ Stored(tbl, keys)) \cup {o.obj}, <<updateCommand>>, o.obj, NoError)
       ELSE Outcome(tbl, <<updateCommand>>, Nil, ValidationException)

(* _save as it would be with the range key left among the properties *)
_save_keepsRange(tbl, o) ==
    LET noHash == Remove(ObjectKeys(o.obj), o.hashKey)
        properties == noHash
        hashOnly == Only(o.hashKey, Lookup(o.obj, o.hashKey))
        keys == IF DefinedName(o.rangeKey)
                THEN With(hashOnly, o.rangeKey, Lookup(o.obj, o.rangeKey))
                ELSE hashOnly
        updateCommand == [cmd |-> "UpdateCommand",
                          Key |-> keys,
                          UpdateExpression |-> EqClauses(properties),
                          ExpressionAttributeNames |-> NamesOf(properties),
                          ExpressionAttributeValues |-> ValuesOf(properties, o.obj),
                          ReturnValues |-> "ALL_NEW"]
        resp == RemoteUpdate(tbl, updateCommand)
    IN IF resp.ok
       THEN Outcome(resp.table, <<updateCommand>>, resp.Attributes, NoError)
       ELSE Outcome(tbl, <<updateCommand>>, Nil, ValidationException)

(* _save as it would be with a missing range key value defaulted to 0 *)
_save_defaultRange(tbl, o) ==
    LET noHash == Remove(ObjectKeys(o.obj), o.hashKey)
        properties == IF DefinedName(o.rangeKey) THEN Remove(noHash, o.rangeKey) ELSE noHash
        hashOnly == Only(o.hashKey, Lookup(o.obj, o.hashKey))
        keys == IF DefinedName(o.rangeKey)
                THEN With(hashOnly, o.rangeKey, IF Defined(Lookup(o.obj, o.rangeKey)) THEN Lookup(o.obj, o.rangeKey) ELSE 0)
                ELSE hashOnly
        updateCommand == [cmd |-> "UpdateCommand",
                          Key |-> keys,
                          UpdateExpression |-> EqClauses(properties),
                          ExpressionAttributeNames |-> NamesOf(properties),
                          ExpressionAttributeValues |-> ValuesOf(properties, o.obj),
                          ReturnValues |-> "ALL_NEW"]
        resp == RemoteUpdate(tbl, updateCommand)
    IN IF resp.ok
       THEN Outcome(resp.table, <<updateCommand>>, resp.Attributes, NoError)
       ELSE Outcome(tbl, <<updateCommand>>, Nil, ValidationException)

(* _save as it would be reading the item back when obj holds only the key *)
_save_skipsEmpty(tbl, o) ==
    LET noHash == Remove(ObjectKeys(o.obj), o.hashKey)
        properties == IF DefinedName(o.rangeKey) THEN Remove(noHash, o.rangeKey) ELSE noHash
        hashOnly == Only(o.hashKey, Lookup(o.obj, o.hashKey))
        keys == IF DefinedName(o.rangeKey)
                THEN With(hashOnly, o.rangeKey, Lookup(o.obj, o.rangeKey))
                ELSE hashOnly
        updateCommand == [cmd |-> "UpdateCommand",
                          Key |-> keys,
                          UpdateExpression |-> EqClauses(properties),
                          ExpressionAttributeNames |-> NamesOf(properties),
                          ExpressionAttributeValues |-> ValuesOf(properties, o.obj),
                          ReturnValues |-> "ALL_NEW"]
        resp == RemoteUpdate(tbl, updateCommand)
        getCommandInput == [cmd |-> "GetCommand", Key |-> keys]
        read == RemoteGet(tbl, getCommandInput)
    IN IF Len(properties) = 0
       THEN IF read.ok THEN Outcome(tbl, <<getCommandInput>>, read.Item, NoError)
            ELSE Outcome(tbl, <<getCommandInput>>, Nil, ValidationException)
       ELSE IF resp.ok
            THEN Outcome(resp.table, <<updateCommand>>, resp.Attributes, NoError)
            ELSE Outcome(tbl, <<updateCommand>>, Nil, ValidationException)

_save(tbl, o) ==
    LET noHash == Remove(ObjectKeys(o.obj), o.hashKey)
        properties == IF DefinedName(o.rangeKey) THEN Remove(noHash, o.rangeKey) ELSE noHash
        hashOnly == Only(o.hashKey, Lookup(o.obj, o.hashKey))
        keys == IF DefinedName(o.rangeKey)
                THEN With(hashOnly, o.rangeKey, Lookup(o.obj, o.rangeKey))
                ELSE hashOnly
        updateCommand == [cmd |-> "UpdateCommand",
                          Key |-> keys,
                          UpdateExpression |-> EqClauses(properties),
                          ExpressionAttributeNames |-> NamesOf(properties),
                          ExpressionAttributeValues |-> ValuesOf(properties, o.obj),
                          ReturnValues |-> "ALL_NEW"]
        resp == RemoteUpdate(tbl, updateCommand)
    IN IF resp.ok
       THEN Outcome(resp.table, <<updateCommand>>, resp.Attributes, NoError)
       ELSE Outcome(tbl, <<updateCommand>>, Nil, ValidationException)

NoOrder == "undefined"

(* _query as it would be with the order flag read the wrong way round *)
_query_orderSwapped(tbl, o) ==
    LET withRange == TruthyName(o.rangeKey) /\ Truthy(o.rangeKeyValue)
        hashCond == [kind |-> "eq", name |-> NamePh(o.hashKey), value |-> ValuePh(o.hashKey)]
        rangeCond == [kind |-> "eq", name |-> NamePh(o.rangeKey), value |-> ValuePh(o.rangeKey)]
        hashNames == Only(NamePh(o.hashKey), o.hashKey)
        hashValues == Only(ValuePh(o.hashKey), o.hashKeyValue)
        queryCommandInput ==
            [cmd |-> "QueryCommand",
             KeyConditionExpression |-> IF withRange THEN <<hashCond, rangeCond>> ELSE <<hashCond>>,
             ExpressionAttributeNames |->
                IF withRange THEN With(hashNames, NamePh(o.rangeKey), o.rangeKey) ELSE hashNames,
             ExpressionAttributeValues |->
                IF withRange THEN With(hashValues, ValuePh(o.rangeKey), o.rangeKeyValue)
                ELSE hashValues,
             Limit |-> o.limit,
             ScanIndexForward |-> IF o.order # NoOrder THEN <<o.order = "dsc">> ELSE <<>>,
             IndexName |-> o.index]
        resp == RemoteQuery(tbl, queryCommandInput)
    IN IF resp.ok
       THEN Outcome(tbl, <<queryCommandInput>>, resp.Items, NoError)
       ELSE Outcome(tbl, <<queryCommandInput>>, <<>>, ValidationException)

(* _query as it would be with the limit left out of the request *)
_query_noLimit(tbl, o) ==
    LET withRange == TruthyName(o.rangeKey) /\ Truthy(o.rangeKeyValue)
        hashCond == [kind |-> "eq", name |-> NamePh(o.hashKey), value |-> ValuePh(o.hashKey)]
        rangeCond == [kind |-> "eq", name |-> NamePh(o.rangeKey), value |-> ValuePh(o.rangeKey)]
        hashNames == Only(NamePh(o.hashKey), o.hashKey)
        hashValues == Only(ValuePh(o.hashKey), o.hashKeyValue)
        queryCommandInput ==
            [cmd |-> "QueryCommand",
             KeyConditionExpression |-> IF withRange THEN <<hashCond, rangeCond>> ELSE <<hashCond>>,
             ExpressionAttributeNames |->
                IF withRange THEN With(hashNames, NamePh(o.rangeKey), o.rangeKey) ELSE hashNames,
             ExpressionAttributeValues |->
                IF withRange THEN With(hashValues, ValuePh(o.rangeKey), o.rangeKeyValue)
                ELSE hashValues,
             Limit |-> Undefined,
             ScanIndexForward |-> IF o.order # NoOrder THEN <<o.order = "asc">> ELSE <<>>,
             IndexName |-> o.index]
        resp == RemoteQuery(tbl, queryCommandInput)
    IN IF resp.ok
       THEN Outcome(tbl, <<queryCommandInput>>, resp.Items, NoError)
       ELSE Outcome(tbl, <<queryCommandInput>>, <<>>, ValidationException)

_query(tbl, o) ==
    LET withRange == TruthyName(o.rangeKey) /\ Truthy(o.rangeKeyValue)
        hashCond == [kind |-> "eq", name |-> NamePh(o.hashKey), value |-> ValuePh(o.hashKey)]
        rangeCond == [kind |-> "eq", name |-> NamePh(o.rangeKey), value |-> ValuePh(o.rangeKey)]
        KeyConditionExpression == IF withRange THEN <<hashCond, rangeCond>> ELSE <<hashCond>>
        hashNames == Only(NamePh(o.hashKey), o.hashKey)
        hashValues == Only(ValuePh(o.hashKey), o.hashKeyValue)
        queryCommandInput ==
            [cmd |-> "QueryCommand",
             KeyConditionExpression |-> KeyConditionExpression,
             ExpressionAttributeNames |->
                IF withRange THEN With(hashNames, NamePh(o.rangeKey), o.rangeKey) ELSE hashNames,
             ExpressionAttributeValues |->
                IF withRange THEN With(hashValues, ValuePh(o.rangeKey), o.rangeKeyValue)
                ELSE hashValues,
             Limit |-> o.limit,
             ScanIndexForward |-> IF o.order # NoOrder THEN <<o.order = "asc">> ELSE <<>>,
             IndexName |-> o.index]
        resp == RemoteQuery(tbl, queryCommandInput)
    IN IF resp.ok
       THEN Outcome(tbl, <<queryCommandInput>>, resp.Items, NoError)
       ELSE Outcome(tbl, <<queryCommandInput>>, <<>>, ValidationException)

_queryBetween(tbl, o) ==
    LET start == o.rangeKeyStartValue
        end == o.rangeKeyEndValue
        inverted == /\ TruthyName(o.rangeKey) /\ Truthy(start) /\ Truthy(end)
                    /\ start > end
        hashCond == [kind |-> "eq", name |-> NamePh(o.hashKey), value |-> ValuePh(o.hashKey)]
        betweenCond == [kind |-> "between", name |-> NamePh(o.rangeKey),
                        lo |-> ValuePh("startValue"), hi |-> ValuePh("endValue")]
        KeyConditionExpression ==
            IF TruthyName(o.rangeKey) /\ Truthy(start) THEN <<hashCond, betweenCond>>
            ELSE <<hashCond>>
        withBounds == DefinedName(o.rangeKey) /\ Defined(start) /\ Defined(end)
        hashNames == Only(NamePh(o.hashKey), o.hashKey)
        hashValues == Only(ValuePh(o.hashKey), o.hashKeyValue)
        queryCommandInput ==
            [cmd |-> "QueryCommand",
             KeyConditionExpression |-> KeyConditionExpression,
             ExpressionAttributeNames |->
                IF withBounds THEN With(hashNames, NamePh(o.rangeKey), o.rangeKey) ELSE hashNames,
             ExpressionAttributeValues |->
                IF withBounds
                THEN With(With(hashValues, ValuePh("startValue"), start), ValuePh("endValue"), end)
                ELSE hashValues,
             Limit |-> Undefined,
             ScanIndexForward |-> <<>>,
             IndexName |-> o.index]
        resp == RemoteQuery(tbl, queryCommandInput)
    IN IF inverted THEN Outcome(tbl, <<>>, <<>>, ServiceError)
       ELSE IF resp.ok
            THEN Outcome(tbl, <<queryCommandInput>>, resp.Items, NoError)
            ELSE Outcome(tbl, <<queryCommandInput>>, <<>>, ValidationException)

(* _get as it would be with the range value tested for truthiness *)
_get_truthyRange(tbl, o) ==
    LET hashOnly == Only(o.hashKey, o.hashKeyValue)
        getCommandInput ==
            [cmd |-> "GetCommand",
             Key |-> IF TruthyName(o.rangeKey) /\ Truthy(o.rangeKeyValue)
                     THEN With(hashOnly, o.rangeKey, o.rangeKeyValue)
                     ELSE hashOnly]
        resp == RemoteGet(tbl, getCommandInput)
    IN IF resp.ok
       THEN Outcome(tbl, <<getCommandInput>>, resp.Item, NoError)
       ELSE Outcome(tbl, <<getCommandInput>>, Nil, ValidationException)

(* _get as it would be raising an error when no item is found *)
_get_throwsOnMissing(tbl, o) ==
    LET viaIndex == _query(tbl, o)
        hashOnly == Only(o.hashKey, o.hashKeyValue)
        getCommandInput ==
            [cmd |-> "GetCommand",
             Key |-> IF DefinedName(o.rangeKey) /\ Defined(o.rangeKeyValue)
                     THEN With(hashOnly, o.rangeKey, o.rangeKeyValue)
                     ELSE hashOnly]
        resp == RemoteGet(tbl, getCommandInput)
    IN IF o.index # NoIndex
       THEN IF viaIndex.err # NoError THEN Outcome(tbl, viaIndex.reqs, Nil, viaIndex.err)
            ELSE IF Len(viaIndex.result) > 0
                 THEN Outcome(tbl, viaIndex.reqs, viaIndex.result[1], NoError)
                 ELSE Outcome(tbl, viaIndex.reqs, Nil, "NotFound")
       ELSE IF resp.ok
            THEN Outcome(tbl, <<getCommandInput>>, resp.Item,
                         IF resp.Item = Nil THEN "NotFound" ELSE NoError)
            ELSE Outcome(tbl, <<getCommandInput>>, Nil, ValidationException)

(* _get as it would be sending the point-get whether or not an index is named *)
_get_ignoresIndex(tbl, o) ==
    LET hashOnly == Only(o.hashKey, o.hashKeyValue)
        getCommandInput ==
            [cmd |-> "GetCommand",
             Key |-> IF DefinedName(o.rangeKey) /\ Defined(o.rangeKeyValue)
                     THEN With(hashOnly, o.rangeKey, o.rangeKeyValue)
                     ELSE hashOnly]
        resp == RemoteGet(tbl, getCommandInput)
    IN IF resp.ok
       THEN Outcome(tbl, <<getCommandInput>>, resp.Item, NoError)
       ELSE Outcome(tbl, <<getCommandInput>>, Nil, ValidationException)

(* _get as it would be querying the partition when no range value is given *)
_get_queriesPartition(tbl, o) ==
    LET viaQuery == _query(tbl, o)
        hashOnly == Only(o.hashKey, o.hashKeyValue)
        withRange == DefinedName(o.rangeKey) /\ Defined(o.rangeKeyValue)
        getCommandInput ==
            [cmd |-> "GetCommand", Key |-> With(hashOnly, o.rangeKey, o.rangeKeyValue)]
        resp == RemoteGet(tbl, getCommandInput)
    IN IF o.index # NoIndex \/ ~withRange
       THEN IF viaQuery.err # NoError THEN Outcome(tbl, viaQuery.reqs, Nil, viaQuery.err)
            ELSE Outcome(tbl, viaQuery.reqs,
                         IF Len(viaQuery.result) > 0 THEN viaQuery.result[1] ELSE Nil, NoError)
       ELSE IF resp.ok
            THEN Outcome(tbl, <<getCommandInput>>, resp.Item, NoError)
            ELSE Outcome(tbl, <<getCommandInput>>, Nil, ValidationException)

(* _get as it would be creating the item of the key when none is stored *)
_get_createsMissing(tbl, o) ==
    LET hashOnly == Only(o.hashKey, o.hashKeyValue)
        Key == IF DefinedName(o.rangeKey) /\ Defined(o.rangeKeyValue)
               THEN With(hashOnly, o.rangeKey, o.rangeKeyValue)
               ELSE hashOnly
        updateCommand == [cmd |-> "UpdateCommand", Key |-> Key, ReturnValues |-> "ALL_NEW"]
        resp == RemoteGet(tbl, updateCommand)
    IN IF ~resp.ok THEN Outcome(tbl, <<updateCommand>>, Nil, ValidationException)
       ELSE IF resp.Item = Nil THEN Outcome(tbl \cup {Key}, <<updateCommand>>, Key, NoError)
       ELSE Outcome(tbl, <<updateCommand>>, resp.Item, NoError)

_get(tbl, o) ==
    LET viaIndex == _query(tbl, o)
        hashOnly == Only(o.hashKey, o.hashKeyValue)
        getCommandInput ==
            [cmd |-> "GetCommand",
             Key |-> IF DefinedName(o.rangeKey) /\ Defined(o.rangeKeyValue)
                     THEN With(hashOnly, o.rangeKey, o.rangeKeyValue)
                     ELSE hashOnly]
        resp == RemoteGet(tbl, getCommandInput)
    IN IF o.index # NoIndex
       THEN IF viaIndex.err # NoError THEN Outcome(tbl, viaIndex.reqs, Nil, viaIndex.err)
            ELSE Outcome(tbl, viaIndex.reqs,
                         IF Len(viaIndex.result) > 0 THEN viaIndex.result[1] ELSE Nil, NoError)
       ELSE IF resp.ok
            THEN Outcome(tbl, <<getCommandInput>>, resp.Item, NoError)
            ELSE Outcome(tbl, <<getCommandInput>>, Nil, ValidationException)

_delete(tbl, o) ==
    LET hashOnly == Only(o.hashKey, o.hashKeyValue)
        deleteCommand ==
            [cmd |-> "DeleteCommand",
             Key |-> IF TruthyName(o.rangeKey) /\ Truthy(o.rangeKeyValue)
                     THEN With(hashOnly, o.rangeKey, o.rangeKeyValue)
                     ELSE hashOnly]
        resp == RemoteDelete(tbl, deleteCommand)
    IN IF resp.ok
       THEN Outcome(resp.table, <<deleteCommand>>, Nil, NoError)
       ELSE Outcome(tbl, <<deleteCommand>>, Nil, ValidationException)

(* _list as it would be without the loop: the first page only *)
ScanLoop_firstPage(tbl, scanCommandParams, limit, results, reqs) ==
    LET resp == RemoteScan(tbl, scanCommandParams)
    IN IF ~resp.ok THEN Outcome(tbl, <<scanCommandParams>>, <<>>, ValidationException)
       ELSE Outcome(tbl, <<scanCommandParams>>, resp.Items, NoError)

(* The loop of _list as it would be without the splice *)
RECURSIVE ScanLoop_noSplice(_, _, _, _, _)
ScanLoop_noSplice(tbl, scanCommandParams, limit, results, reqs) ==
    LET resp == RemoteScan(tbl, scanCommandParams)
        sent == Append(reqs, scanCommandParams)
        pushed == results \o resp.Items
    IN IF ~resp.ok THEN Outcome(tbl, sent, <<>>, ValidationException)
       ELSE IF Truthy(limit) /\ Len(pushed) >= limit THEN Outcome(tbl, sent, pushed, NoError)
       ELSE IF resp.LastEvaluatedKey = Nil THEN Outcome(tbl, sent, pushed, NoError)
       ELSE ScanLoop_noSplice(tbl,
                     [scanCommandParams EXCEPT !.ExclusiveStartKey = resp.LastEvaluatedKey],
                     limit, pushed, sent)

(* The loop of _list as it would be scanning once more after the last page *)
RECURSIVE ScanLoop_extraPage(_, _, _, _, _)
ScanLoop_extraPage(tbl, scanCommandParams, limit, results, reqs) ==
    LET resp == RemoteScan(tbl, scanCommandParams)
        sent == Append(reqs, scanCommandParams)
        pushed == results \o resp.Items
        spliced == IF Truthy(limit) /\ Len(pushed) > limit
                   THEN SubSeq(pushed, limit + 1, Len(pushed))
                   ELSE pushed
        again == [scanCommandParams EXCEPT !.ExclusiveStartKey = resp.LastEvaluatedKey]
    IN IF ~resp.ok THEN Outcome(tbl, sent, <<>>, ValidationException)
       ELSE IF Truthy(limit) /\ Len(spliced) >= limit THEN Outcome(tbl, sent, spliced, NoError)
       ELSE IF resp.LastEvaluatedKey = Nil
            THEN Outcome(tbl, Append(sent, again), spliced, NoError)
       ELSE ScanLoop_extraPage(tbl, again, limit, spliced, sent)

(* The do/while loop of _list: one ScanCommand per iteration *)
RECURSIVE ScanLoop(_, _, _, _, _)
ScanLoop(tbl, scanCommandParams, limit, results, reqs) ==
    LET resp == RemoteScan(tbl, scanCommandParams)
        sent == Append(reqs, scanCommandParams)
        pushed == results \o resp.Items
        spliced == IF Truthy(limit) /\ Len(pushed) > limit
                   THEN SubSeq(pushed, limit + 1, Len(pushed))
                   ELSE pushed
    IN IF ~resp.ok THEN Outcome(tbl, sent, <<>>, ValidationException)
       ELSE IF Truthy(limit) /\ Len(spliced) >= limit THEN Outcome(tbl, sent, spliced, NoError)
       ELSE IF resp.LastEvaluatedKey = Nil THEN Outcome(tbl, sent, spliced, NoError)
       ELSE ScanLoop(tbl,
                     [scanCommandParams EXCEPT !.ExclusiveStartKey = resp.LastEvaluatedKey],
                     limit, spliced, sent)

_list(tbl, o) ==
    LET filterKeys == ObjectKeys(o.filters)
        scanCommandParams ==
            [cmd |-> "ScanCommand",
             Limit |-> o.limit,
             FilterExpression |-> EqClauses(filterKeys),
             ExpressionAttributeNames |-> NamesOf(filterKeys),
             ExpressionAttributeValues |-> ValuesOf(filterKeys, o.filters),
             ExclusiveStartKey |-> Nil]
    IN ScanLoop(tbl, scanCommandParams, o.limit, <<>>, <<>>)

NoFilters == <<>>

(* getAll as it would be with a limit of its own *)
getAll_limited(tbl) == _list(tbl, [filters |-> NoFilters, limit |-> 1])

getAll(tbl) == _list(tbl, [filters |-> NoFilters, limit |-> Undefined])

(* _paginate as it would be starting every page at the head of the table *)
_paginate_dropsToken(tbl, o) ==
    LET filterKeys == ObjectKeys(o.filters)
        scanCommandParams ==
            [cmd |-> "ScanCommand",
             Limit |-> o.limit,
             FilterExpression |-> EqClauses(filterKeys),
             ExpressionAttributeNames |-> NamesOf(filterKeys),
             ExpressionAttributeValues |-> ValuesOf(filterKeys, o.filters),
             ExclusiveStartKey |-> Nil]
        resp == RemoteScan(tbl, scanCommandParams)
    IN IF ~resp.ok THEN Outcome(tbl, <<scanCommandParams>>, Nil, ValidationException)
       ELSE Outcome(tbl, <<scanCommandParams>>,
                    [items |-> resp.Items, lastEvaluatedKey |-> resp.LastEvaluatedKey], NoError)

(* The paginated list: one scan page, the continuation token handed to the *)
(* caller instead of followed                                              *)
_paginate(tbl, o) ==
    LET filterKeys == ObjectKeys(o.filters)
        scanCommandParams ==
            [cmd |-> "ScanCommand",
             Limit |-> o.limit,
             FilterExpression |-> EqClauses(filterKeys),
             ExpressionAttributeNames |-> NamesOf(filterKeys),
             ExpressionAttributeValues |-> ValuesOf(filterKeys, o.filters),
             ExclusiveStartKey |-> o.lastEvaluatedKey]
        resp == RemoteScan(tbl, scanCommandParams)
    IN IF ~resp.ok THEN Outcome(tbl, <<scanCommandParams>>, Nil, ValidationException)
       ELSE Outcome(tbl, <<scanCommandParams>>,
                    [items |-> resp.Items, lastEvaluatedKey |-> resp.LastEvaluatedKey], NoError)

(* chunk as it would be keeping only the slices of full size *)
chunk_dropsTail(array, size) ==
    LET IsStart(i) == i % size = 0 /\ i + size <= Len(array)
        starts == SelectSeq([k \in 1 .. Len(array) |-> k - 1], IsStart)
    IN [c \in 1 .. Len(starts) |-> SubSeq(array, starts[c] + 1, starts[c] + size)]

chunk(array, size) ==
    LET IsStart(i) == i % size = 0
        starts == SelectSeq([k \in 1 .. Len(array) |-> k - 1], IsStart)
    IN [c \in 1 .. Len(starts) |->
          SubSeq(array, starts[c] + 1, Min(starts[c] + size, Len(array)))]

LIMIT == 100

(* The for loop of _batchGet: one BatchGetCommand per chunk *)
RECURSIVE BatchLoop(_, _, _, _, _)
BatchLoop(tbl, chunks, c, results, reqs) ==
    IF c > Len(chunks) THEN Outcome(tbl, reqs, results, NoError)
    ELSE LET batchGetCommandInput == [cmd |-> "BatchGetCommand", Keys |-> chunks[c]]
             resp == RemoteBatchGet(tbl, batchGetCommandInput)
             sent == Append(reqs, batchGetCommandInput)
         IN IF ~resp.ok THEN Outcome(tbl, sent, <<>>, ValidationException)
            ELSE BatchLoop(tbl, chunks, c + 1, results \o resp.Responses, sent)

BatchKey(item) ==
    LET hashOnly == Only(item.hashKey, item.hashKeyValue)
    IN IF TruthyName(item.rangeKey) /\ Truthy(item.rangeKeyValue)
       THEN With(hashOnly, item.rangeKey, item.rangeKeyValue)
       ELSE hashOnly

_batchGet(tbl, o) ==
    LET items == [i \in 1 .. Len(o.items) |-> BatchKey(o.items[i])]
    IN BatchLoop(tbl, chunk(items, LIMIT), 1, <<>>, <<>>)

----------------------------------------------------------------------------
(* The state machine: every action is one call of a service method *)

NoCall == [op |-> "none", in |-> Nil, reqs |-> <<>>, result |-> Nil, err |-> NoError]

Init ==
    /\ hasRange \in BOOLEAN
    /\ table = {}
    /\ last = NoCall

Call(op, in, out) ==
    /\ table' = out.table
    /\ last' = [op |-> op, in |-> in, reqs |-> out.reqs, result |-> out.result, err |-> out.err]
    /\ UNCHANGED hasRange

RangeKeyOption == IF hasRange THEN RangeAttr ELSE NoAttr

(* The attributes of obj other than the key: none, a name, a name and a tag *)
NonKeyParts ==
    {[a \in S |-> IF a = "name" THEN n ELSE t] :
        S \in {{}, {"name"}, {"name", "tag"}}, n \in Names, t \in Tags}

NameParts == {[a \in {"name"} |-> n] : n \in Names}

(* obj for the table at hand: on TestRange secondId is the range key and   *)
(* may be number, undefined or null; on Test it is the indexed attribute   *)
(* and is a number or left out.                                            *)
SaveObj(h, r, part) ==
    LET withHash == With(part, HashAttr, h)
    IN IF hasRange \/ Defined(r) THEN With(withHash, RangeAttr, r) ELSE withHash

Save(parts, rvals, cap) ==
    \E h \in Hashes, r \in rvals, part \in parts :
       LET o == [hashKey |-> HashAttr, rangeKey |-> RangeKeyOption, obj |-> SaveObj(h, r, part)]
           out == _save(table, o)
       IN /\ Cardinality(out.table) <= cap
          /\ Call("save", o, out)

(* The key options of a call: the range key named or not, its value given, *)
(* undefined or null                                                       *)
KeyOptions ==
    {[hashKey |-> HashAttr, hashKeyValue |-> h, rangeKey |-> NoAttr, rangeKeyValue |-> Undefined] :
        h \in Hashes}
    \cup
    {[hashKey |-> HashAttr, hashKeyValue |-> h, rangeKey |-> RangeAttr, rangeKeyValue |-> r] :
        h \in Hashes, r \in IF hasRange THEN Ranges \cup {Undefined} ELSE {}}

IndexOptions ==
    {[hashKey |-> IndexHashAttr, hashKeyValue |-> v, rangeKey |-> NoAttr, rangeKeyValue |-> Undefined] :
        v \in IF hasRange THEN {} ELSE Ranges}

GetOptions(k, index) ==
    [index |-> index, order |-> NoOrder, limit |-> Undefined,
     hashKey |-> k.hashKey, hashKeyValue |-> k.hashKeyValue,
     rangeKey |-> k.rangeKey, rangeKeyValue |-> k.rangeKeyValue]

Get ==
    \/ \E k \in KeyOptions :
          LET o == GetOptions(k, NoIndex) IN Call("get", o, _get(table, o))
    \/ \E k \in IndexOptions :
          LET o == GetOptions(k, TestIndex) IN Call("get", o, _get(table, o))

Delete ==
    \E k \in KeyOptions : Call("delete", k, _delete(table, k))

QueryBetween ==
    \E h \in Hashes, rk \in {NoAttr, RangeKeyOption},
       start \in Ranges \cup {Undefined}, end \in Ranges \cup {Undefined} :
       LET o == [index |-> NoIndex, hashKey |-> HashAttr, hashKeyValue |-> h, rangeKey |-> rk,
                 rangeKeyStartValue |-> start, rangeKeyEndValue |-> end]
       IN Call("queryBetween", o, _queryBetween(table, o))

Filters ==
    {NoFilters} \cup {[a \in {"name"} |-> n] : n \in Names}
    \cup {[a \in {"id", "name"} |-> IF a = "id" THEN h ELSE n] : h \in Hashes, n \in Names}

Limits == {Undefined} \cup (1 .. MaxLimit)

List ==
    \E f \in Filters, l \in Limits :
       LET o == [filters |-> f, limit |-> l] IN Call("list", o, _list(table, o))

GetAll == Call("getAll", Nil, getAll(table))

Next == Save(NonKeyParts, Ranges \cup {Undefined, Null}, KVItems) \/ Get \/ Delete

Spec == Init /\ [][Next]_vars

NextQuery == Save(NameParts, Ranges, MaxItems) \/ QueryBetween

SpecQuery == Init /\ [][NextQuery]_vars

NextList == Save(NameParts, Ranges, MaxItems) \/ List \/ GetAll

SpecList == Init /\ [][NextList]_vars

Orders == {NoOrder, "asc", "dsc"}

(* _query with a key (hash, or hash and range value), and _query of a      *)
(* partition with an order and a limit                                     *)
Query ==
    \/ \E k \in KeyOptions :
          LET o == GetOptions(k, NoIndex) IN Call("query", o, _query(table, o))
    \/ \E h \in Hashes, order \in Orders, l \in Limits :
          LET o == [index |-> NoIndex, order |-> order, limit |-> l,
                    hashKey |-> HashAttr, hashKeyValue |-> h,
                    rangeKey |-> NoAttr, rangeKeyValue |-> Undefined]
          IN Call("query", o, _query(table, o))

NextOrder == Save(NameParts, Ranges, MaxItems) \/ Query

SpecOrder == Init /\ [][NextOrder]_vars

PageSizes == 1 .. MaxLimit

PageFilters == {NoFilters} \cup {[a \in {"name"} |-> n] : n \in Names}

(* One call of _paginate and what its caller keeps: the pages received     *)
(* since the first call of the chain                                       *)
Paged(o, out, before) ==
    /\ table' = out.table
    /\ last' = [op |-> "paginate", in |-> o, reqs |-> out.reqs, result |-> out.result,
                err |-> out.err,
                pages |-> IF out.err = NoError THEN Append(before, out.result.items)
                          ELSE before]
    /\ UNCHANGED hasRange

(* The first page, and the next page with the token the last call returned *)
Paginate ==
    \/ \E l \in PageSizes, f \in PageFilters :
          LET o == [filters |-> f, limit |-> l, lastEvaluatedKey |-> Nil]
          IN Paged(o, _paginate(table, o), <<>>)
    \/ /\ last.op = "paginate" /\ last.err = NoError
       /\ last.result.lastEvaluatedKey # Nil
       /\ LET o == [last.in EXCEPT !.lastEvaluatedKey = last.result.lastEvaluatedKey]
          IN Paged(o, _paginate(table, o), last.pages)

NextPage == Save(NameParts, Ranges, MaxItems) \/ Paginate

SpecPage == Init /\ [][NextPage]_vars

(* _batchGet over the table the batch tests write: item i has range key i  *)
(* on TestRange, hash key i + 1 on Test.                                   *)
BatchObj(i) ==
    IF hasRange THEN [id |-> 1, secondId |-> i, name |-> "a"]
    ELSE [id |-> i + 1, name |-> "a"]

BatchItem(i) ==
    IF hasRange
    THEN [hashKey |-> HashAttr, hashKeyValue |-> 1, rangeKey |-> RangeAttr, rangeKeyValue |-> i]
    ELSE [hashKey |-> HashAttr, hashKeyValue |-> i + 1, rangeKey |-> NoAttr, rangeKeyValue |-> Undefined]

(* The table after _save of items lo .. hi, one call after the other *)
RECURSIVE SavedFrom(_, _, _)
SavedFrom(tbl, lo, hi) ==
    IF lo > hi THEN tbl
    ELSE IF lo = hi
         THEN _save(tbl, [hashKey |-> HashAttr, rangeKey |-> RangeKeyOption,
                          obj |-> BatchObj(lo)]).table
         ELSE LET mid == (lo + hi) \div 2
              IN CHOOSE t \in {SavedFrom(half, mid + 1, hi) :
                                 half \in {SavedFrom(tbl, lo, mid)}} : TRUE

Written(n) == SavedFrom({}, 0, n - 1)

FillSizes == {0, 1, LIMIT, 2 * LIMIT, MaxKeys}

BatchSizes == {0, 1, LIMIT - 1, LIMIT, LIMIT + 1, 2 * LIMIT, MaxKeys}

BatchStarts == {0, 1, 2}

InitBatch ==
    /\ hasRange \in BOOLEAN
    /\ table \in {Written(n) : n \in FillSizes}
    /\ last = NoCall

BatchGet ==
    \E n \in BatchSizes, s \in BatchStarts :
       LET o == [items |-> [i \in 1 .. n |-> BatchItem(s + i - 1)]]
       IN Call("batchGet", o, _batchGet(table, o))

NextBatch == BatchGet

SpecBatch == InitBatch /\ [][NextBatch]_vars

(* chunk applied to an array of n consecutive numbers *)
Chunk ==
    \E n \in 0 .. MaxArray, size \in 1 .. MaxSize, first \in {0, 1} :
       LET array == [i \in 1 .. n |-> first + i - 1]
           o == [array |-> array, size |-> size]
       IN Call("chunk", o, Outcome(table, <<>>, chunk(array, size), NoError))

NextChunk == Chunk \/ BatchGet

SpecChunk == Init /\ [][NextChunk]_vars

(* _batchGet with one or two keys *)
BatchGetKeys ==
    \E k1 \in KeyOptions, k2 \in KeyOptions, n \in {1, 2} :
       LET o == [items |-> SubSeq(<<k1, k2>>, 1, n)]
       IN Call("batchGet", o, _batchGet(table, o))

(* The read operations over a table of 0 .. MaxItems items *)
InitRead ==
    /\ hasRange \in BOOLEAN
    /\ table \in {Written(n) : n \in 0 .. MaxItems}
    /\ last = NoCall

NextRead == Get \/ Query \/ QueryBetween \/ BatchGetKeys \/ List \/ GetAll

SpecRead == InitRead /\ [][NextRead]_vars

----------------------------------------------------------------------------
(* _batchGet and _list step by step: a request is sent, the call awaits    *)
(* its response, and the response is an answer or a failure (a rejected    *)
(* request, or a failure of the remote call such as throttling).           *)

RemoteFailure == "RemoteFailure"

Idle == [op |-> "none", in |-> Nil, pc |-> "done", reqs |-> <<>>, answered |-> 0,
         resp |-> "none", results |-> <<>>, result |-> Nil, err |-> NoError]

InitSteps ==
    /\ hasRange \in BOOLEAN
    /\ table \in {Written(n) : n \in {0, MaxItems, MaxKeys}}
    /\ last = Idle

Step(rec) == last' = rec /\ UNCHANGED <<hasRange, table>>

(* A rejected promise leaves the method at once: nothing is returned *)
Thrown(err) ==
    [last EXCEPT !.pc = "done", !.answered = @ + 1, !.resp = "failed",
                 !.result = <<>>, !.err = err]

Returned(results, answers) ==
    [last EXCEPT !.pc = "done", !.answered = @ + answers, !.resp = "ok",
                 !.results = results, !.result = results]

StartBatch ==
    /\ last.pc = "done"
    /\ \E n \in BatchSizes, s \in BatchStarts, down \in BOOLEAN :
          LET o == [items |-> [i \in 1 .. n |->
                                 BatchItem(IF down THEN s + n - i ELSE s + i - 1)]]
              items == [i \in 1 .. Len(o.items) |-> BatchKey(o.items[i])]
          IN Step([op |-> "batchGet", in |-> o, pc |-> "send", reqs |-> <<>>,
                   answered |-> 0, resp |-> "none", results |-> <<>>, result |-> Nil,
                   err |-> NoError, chunks |-> chunk(items, LIMIT), c |-> 1])

(* _batchGet as it would be sending the requests of all chunks at once *)
BatchSend_all ==
    /\ last.op = "batchGet" /\ last.pc = "send" /\ last.c <= Len(last.chunks)
    /\ Step([last EXCEPT !.pc = "await",
                         !.reqs = [k \in 1 .. Len(last.chunks) |->
                                     [cmd |-> "BatchGetCommand", Keys |-> last.chunks[k]]]])

BatchSend ==
    /\ last.op = "batchGet" /\ last.pc = "send" /\ last.c <= Len(last.chunks)
    /\ LET batchGetCommandInput == [cmd |-> "BatchGetCommand", Keys |-> last.chunks[last.c]]
       IN Step([last EXCEPT !.pc = "await", !.reqs = Append(@, batchGetCommandInput)])

(* _batchGet as it would be going on to the next chunk after a failure *)
BatchReceive_skipsFailed ==
    /\ last.op = "batchGet" /\ last.pc = "await"
    /\ \E fails \in BOOLEAN :
          LET resp == RemoteBatchGet(table, last.reqs[Len(last.reqs)])
          IN IF fails \/ ~resp.ok
             THEN Step([last EXCEPT !.pc = "send", !.answered = @ + 1, !.resp = "failed",
                                   !.c = @ + 1])
             ELSE Step([last EXCEPT !.pc = "send", !.answered = @ + 1, !.resp = "ok",
                                   !.results = @ \o resp.Responses, !.c = @ + 1])

BatchReceive ==
    /\ last.op = "batchGet" /\ last.pc = "await"
    /\ \E fails \in BOOLEAN :
          LET resp == RemoteBatchGet(table, last.reqs[Len(last.reqs)])
          IN IF fails THEN Step(Thrown(RemoteFailure))
             ELSE IF ~resp.ok THEN Step(Thrown(ValidationException))
             ELSE Step([last EXCEPT !.pc = "send", !.answered = @ + 1, !.resp = "ok",
                                   !.results = @ \o resp.Responses, !.c = @ + 1])

BatchReturn ==
    /\ last.op = "batchGet" /\ last.pc = "send" /\ last.c > Len(last.chunks)
    /\ Step(Returned(last.results, 0))

StartList ==
    /\ last.pc = "done"
    /\ Cardinality(table) <= MaxItems
    /\ \E f \in Filters, l \in Limits :
          LET o == [filters |-> f, limit |-> l]
              filterKeys == ObjectKeys(o.filters)
              scanCommandParams ==
                  [cmd |-> "ScanCommand",
                   Limit |-> o.limit,
                   FilterExpression |-> EqClauses(filterKeys),
                   ExpressionAttributeNames |-> NamesOf(filterKeys),
                   ExpressionAttributeValues |-> ValuesOf(filterKeys, o.filters),
                   ExclusiveStartKey |-> Nil]
          IN Step([op |-> "list", in |-> o, pc |-> "send", reqs |-> <<>>,
                   answered |-> 0, resp |-> "none", results |-> <<>>, result |-> Nil,
                   err |-> NoError, scanCommand |-> scanCommandParams])

ScanSend ==
    /\ last.op = "list" /\ last.pc = "send"
    /\ Step([last EXCEPT !.pc = "await", !.reqs = Append(@, last.scanCommand)])

ScanReceive ==
    /\ last.op = "list" /\ last.pc = "await"
    /\ \E fails \in BOOLEAN :
          LET resp == RemoteScan(table, last.reqs[Len(last.reqs)])
              limit == last.in.limit
              pushed == last.results \o resp.Items
              spliced == IF Truthy(limit) /\ Len(pushed) > limit
                         THEN SubSeq(pushed, limit + 1, Len(pushed))
                         ELSE pushed
          IN IF fails THEN Step(Thrown(RemoteFailure))
             ELSE IF ~resp.ok THEN Step(Thrown(ValidationException))
             ELSE IF (Truthy(limit) /\ Len(spliced) >= limit) \/ resp.LastEvaluatedKey = Nil
             THEN Step(Returned(spliced, 1))
             ELSE Step([last EXCEPT !.pc = "send", !.answered = @ + 1, !.resp = "ok",
                                   !.results = spliced,
                                   !.scanCommand.ExclusiveStartKey = resp.LastEvaluatedKey])

NextSteps ==
    \/ StartBatch \/ BatchSend \/ BatchReceive \/ BatchReturn
    \/ StartList \/ ScanSend \/ ScanReceive

SpecSteps == InitSteps /\ [][NextSteps]_vars

----------------------------------------------------------------------------
(* Properties *)

FullKey(h, r) == IF hasRange THEN [id |-> h, secondId |-> r] ELSE [id |-> h]

SavedKey(o) == FullKey(o.obj[HashAttr], Lookup(o.obj, RangeAttr))

(* The call names the whole key of the table *)
KeyGiven(k) ==
    IF hasRange THEN k.rangeKey = RangeAttr /\ Defined(k.rangeKeyValue) ELSE k.rangeKey = NoAttr

NamedKey(k) == FullKey(k.hashKeyValue, k.rangeKeyValue)

Matching(tbl, filters) ==
    {it \in tbl : \A a \in DOMAIN filters : a \in DOMAIN it /\ it[a] = filters[a]}

NoDuplicates(seq) == Cardinality(Range(seq)) = Len(seq)

Ascending(tbl, h, lo, hi) ==
    SortByRank({it \in tbl : it[HashAttr] = h /\ lo <= it[RangeAttr] /\ it[RangeAttr] <= hi})

(* The number of items the first k scan requests of the last call returned *)
RECURSIVE Received(_)
Received(k) ==
    IF k = 0 THEN 0 ELSE Received(k - 1) + Len(RemoteScan(table, last.reqs[k]).Items)

(* C1: a _get with the key of the item just saved (hash-only table, or     *)
(* range-keyed table with any range value, 0 included) succeeds and        *)
(* returns the stored item, which holds the key values and every supplied  *)
(* attribute; a save under a new key stores exactly what was supplied.     *)
C1_SaveThenGet ==
    [][/\ (/\ last'.op = "save" /\ last'.err = NoError
           /\ Stored(table, SavedKey(last'.in)) = {})
          => Stored(table', SavedKey(last'.in)) = {last'.in.obj}
       /\ (/\ last.op = "save" /\ last.err = NoError
           /\ last'.op = "get" /\ last'.in.index = NoIndex
           /\ KeyGiven(last'.in) /\ NamedKey(last'.in) = SavedKey(last.in))
          => /\ last'.err = NoError
             /\ Stored(table, SavedKey(last.in)) = {last'.result}
             /\ \A a \in DOMAIN last.in.obj :
                   a \in DOMAIN last'.result /\ last'.result[a] = last.in.obj[a]]_vars

C1_Witness ==
    /\ last.op = "get" /\ hasRange /\ last.in.index = NoIndex
    /\ last.in.rangeKey = RangeAttr /\ last.in.rangeKeyValue = 0
    /\ last.err = NoError /\ last.result # Nil

(* C2: a _get after a _delete with the same key returns null *)
C2_DeleteThenGet ==
    [][(/\ last.op = "delete" /\ KeyGiven(last.in)
        /\ last'.op = "get" /\ last'.in.index = NoIndex
        /\ KeyGiven(last'.in) /\ NamedKey(last'.in) = NamedKey(last.in))
       => last'.err = NoError /\ last'.result = Nil]_vars

(* C3: _delete with range key value 0 sends a key holding the hash key and *)
(* the range key 0, and removes exactly the item (hash, 0)                 *)
C3_DeleteRangeZero ==
    [][(/\ last'.op = "delete"
        /\ last'.in.rangeKey = RangeAttr /\ last'.in.rangeKeyValue = 0)
       => /\ Len(last'.reqs) = 1
          /\ last'.reqs[1].Key = NamedKey(last'.in)
          /\ last'.err = NoError
          /\ table' = table \ Stored(table, NamedKey(last'.in))]_vars

(* C4: _queryBetween with start > end fails with the ServiceError and      *)
(* sends no request                                                        *)
C4_InvertedBounds ==
    (/\ last.op = "queryBetween" /\ last.in.rangeKey = RangeAttr
     /\ Defined(last.in.rangeKeyStartValue) /\ Defined(last.in.rangeKeyEndValue)
     /\ last.in.rangeKeyStartValue > last.in.rangeKeyEndValue)
    => last.err = ServiceError /\ last.reqs = <<>>

(* C5: for min <= max, _queryBetween returns exactly the items of the      *)
(* partition with range value in [min, max], in ascending range order      *)
C5_Between ==
    (/\ last.op = "queryBetween" /\ hasRange /\ last.in.rangeKey = RangeAttr
     /\ Defined(last.in.rangeKeyStartValue) /\ Defined(last.in.rangeKeyEndValue)
     /\ last.in.rangeKeyStartValue <= last.in.rangeKeyEndValue)
    => /\ last.err = NoError
       /\ last.result = Ascending(table, last.in.hashKeyValue,
                                  last.in.rangeKeyStartValue, last.in.rangeKeyEndValue)

(* C6: _list with limit L >= 1 returns exactly L matching items when at    *)
(* least L items match, and sends no scan once it has received L items;    *)
(* when fewer than L match, it returns all of them                         *)
C6_ListLimit ==
    (last.op = "list" /\ Defined(last.in.limit))
    => LET L == last.in.limit
           M == Matching(table, last.in.filters)
       IN /\ last.err = NoError
          /\ Range(last.result) \subseteq M
          /\ NoDuplicates(last.result)
          /\ IF Cardinality(M) >= L
             THEN /\ Len(last.result) = L
                  /\ \A k \in 1 .. Len(last.reqs) - 1 : Received(k) < L
             ELSE Range(last.result) = M

(* C7: _list whose limit is not reached returns exactly the items whose    *)
(* attributes equal every filter value, each once, over all scan pages     *)
C7_ListFilters ==
    (/\ last.op = "list"
     /\ \/ last.in.limit = Undefined
        \/ Cardinality(Matching(table, last.in.filters)) < last.in.limit)
    => /\ last.err = NoError
       /\ Range(last.result) = Matching(table, last.in.filters)
       /\ NoDuplicates(last.result)

C7_Witness ==
    /\ last.op = "list" /\ last.err = NoError
    /\ "id" \in DOMAIN last.in.filters /\ "name" \in DOMAIN last.in.filters
    /\ Len(last.reqs) >= 2
    /\ Len(last.result) >= 1
    /\ Cardinality(table \ Matching(table, last.in.filters)) >= 2

(* C8: getAll returns every item of the table exactly once; each scan      *)
(* after the first starts at the key the previous page ended with, and the *)
(* last page ends the table                                                *)
C8_GetAll ==
    (last.op = "getAll")
    => /\ last.err = NoError
       /\ Range(last.result) = table
       /\ Len(last.result) = Cardinality(table)
       /\ Len(last.reqs) >= 1
       /\ last.reqs[1].ExclusiveStartKey = Nil
       /\ \A k \in 2 .. Len(last.reqs) :
             /\ last.reqs[k].ExclusiveStartKey # Nil
             /\ last.reqs[k].ExclusiveStartKey =
                   RemoteScan(table, last.reqs[k - 1]).LastEvaluatedKey
       /\ RemoteScan(table, last.reqs[Len(last.reqs)]).LastEvaluatedKey = Nil

C8_Witness ==
    /\ last.op = "getAll" /\ last.err = NoError
    /\ Len(last.reqs) >= 2
    /\ Cardinality(table) >= 3
    /\ Len(last.result) = Cardinality(table)

(* The keys a _batchGet call names *)
RequestedKeys(items) == [i \in 1 .. Len(items) |-> NamedKey(items[i])]

RECURSIVE Concat(_)
Concat(seqs) == IF seqs = <<>> THEN <<>> ELSE Head(seqs) \o Concat(Tail(seqs))

(* C9: _batchGet returns exactly the stored items of the requested keys,   *)
(* one per key that exists and nothing for the others, without error       *)
C9_BatchGet ==
    (last.op = "batchGet")
    => LET wanted == Range(RequestedKeys(last.in.items))
           stored == {it \in table : ItemKey(it) \in wanted}
       IN /\ last.err = NoError
          /\ Range(last.result) = stored
          /\ Len(last.result) = Cardinality(stored)

(* C10: _batchGet with n keys sends ceil(n / 100) requests of 1 to 100     *)
(* keys each, which together hold the input keys once each, in input order *)
C10_BatchRequests ==
    (last.op = "batchGet")
    => LET n == Len(last.in.items)
       IN /\ Len(last.reqs) = (n + LIMIT - 1) \div LIMIT
          /\ \A k \in 1 .. Len(last.reqs) :
                Len(last.reqs[k].Keys) >= 1 /\ Len(last.reqs[k].Keys) <= LIMIT
          /\ Concat([k \in 1 .. Len(last.reqs) |-> last.reqs[k].Keys])
                = RequestedKeys(last.in.items)

(* The items of partition h in the order the call asks for *)
Partition(tbl, h, order) ==
    LET asc == SortByRank({it \in tbl : it[HashAttr] = h})
    IN IF order = "dsc" THEN Reverse(asc) ELSE asc

(* C11: _query with a hash key and a range key value (0 included) puts the *)
(* range equality into the key condition and returns exactly the item with *)
(* that hash and range value, not the partition                            *)
C11_QueryRange ==
    (/\ last.op = "query" /\ hasRange
     /\ last.in.rangeKey = RangeAttr /\ Defined(last.in.rangeKeyValue))
    => /\ last.err = NoError
       /\ Len(last.reqs) = 1
       /\ Len(last.reqs[1].KeyConditionExpression) = 2
       /\ Range(last.result) = Stored(table, NamedKey(last.in))
       /\ Len(last.result) <= 1

C13_QueryLimit ==
    (last.op = "query" /\ last.in.rangeKey = NoAttr /\ Defined(last.in.limit))
    => LET all == Partition(table, last.in.hashKeyValue, last.in.order)
       IN /\ last.err = NoError
          /\ Len(last.result) = Min(last.in.limit, Len(all))
          /\ last.result = SubSeq(all, 1, Min(last.in.limit, Len(all)))

C13_Witness ==
    /\ last.op = "query" /\ hasRange /\ last.in.rangeKey = NoAttr
    /\ Defined(last.in.limit) /\ last.err = NoError
    /\ Len(last.result) = last.in.limit
    /\ Cardinality({it \in table : it[HashAttr] = last.in.hashKeyValue}) > last.in.limit

(* The attributes _save addresses through Key *)
KeyNames(o) == {o.hashKey} \cup (IF DefinedName(o.rangeKey) THEN {o.rangeKey} ELSE {})

(* An item with the attributes of obj written over it *)
Overwritten(it, obj) ==
    [a \in DOMAIN it \cup DOMAIN obj |-> IF a \in DOMAIN obj THEN obj[a] ELSE it[a]]

(* C14: _save returns the item as stored after the upsert: for a new key   *)
(* the key values and the supplied attributes, for an existing key the     *)
(* stored item with the supplied attributes replaced                       *)
C14_SaveReturns ==
    [][(last'.op = "save" /\ last'.err = NoError)
       => LET key == SavedKey(last'.in)
              old == Stored(table, key)
          IN /\ Stored(table', key) = {last'.result}
             /\ old = {} => last'.result = last'.in.obj
             /\ \A it \in old : last'.result = Overwritten(it, last'.in.obj)]_vars

C14_Witness ==
    /\ last.op = "save" /\ last.err = NoError
    /\ last.result # last.in.obj
    /\ "name" \in DOMAIN last.in.obj /\ last.result["name"] = last.in.obj["name"]

(* C15: _save on an existing item changes only the attributes supplied in  *)
(* obj: the other stored attributes and the key keep their values, and     *)
(* every other item of the table is unchanged                              *)
C15_SaveFrame ==
    [][(last'.op = "save" /\ last'.err = NoError)
       => \A it \in Stored(table, SavedKey(last'.in)) :
             \E new \in Stored(table', SavedKey(last'.in)) :
                /\ \A a \in DOMAIN it \ DOMAIN last'.in.obj :
                      a \in DOMAIN new /\ new[a] = it[a]
                /\ ItemKey(new) = ItemKey(it)
                /\ table' \ {new} = table \ {it}]_vars

C15_Witness ==
    /\ last.op = "save" /\ last.err = NoError
    /\ "tag" \in DOMAIN last.result /\ "tag" \notin DOMAIN last.in.obj
    /\ Cardinality(table) >= 2

(* C16: the update request of _save names the hash key and the range key   *)
(* only in Key, never in the update expression or the expression attribute *)
(* maps, and sets every other attribute of obj exactly once                *)
C16_SaveRequest ==
    (last.op = "save")
    => /\ Len(last.reqs) = 1
       /\ LET req == last.reqs[1]
              clauses == req.UpdateExpression
              names == req.ExpressionAttributeNames
              values == req.ExpressionAttributeValues
              keyNames == KeyNames(last.in)
          IN /\ DOMAIN req.Key = keyNames
             /\ \A i \in 1 .. Len(clauses) :
                   /\ clauses[i].name \in DOMAIN names
                   /\ names[clauses[i].name] \notin keyNames
             /\ \A k \in keyNames :
                   /\ NamePh(k) \notin DOMAIN names
                   /\ ValuePh(k) \notin DOMAIN values
                   /\ \A x \in DOMAIN names : names[x] # k
             /\ \A a \in DOMAIN last.in.obj \ keyNames :
                   Cardinality({i \in 1 .. Len(clauses) :
                                  /\ clauses[i].name = NamePh(a) /\ names[NamePh(a)] = a
                                  /\ clauses[i].value = ValuePh(a)
                                  /\ values[ValuePh(a)] = last.in.obj[a]}) = 1
             /\ Len(clauses) = Cardinality(DOMAIN last.in.obj \ keyNames)

C16_Witness ==
    /\ last.op = "save" /\ hasRange /\ last.err = NoError
    /\ RangeAttr \in DOMAIN last.in.obj
    /\ Len(last.reqs[1].UpdateExpression) = 2

(* C17: _save on a range-keyed table with a null or undefined range key    *)
(* value fails and leaves the table unchanged                              *)
C17_SaveNoRange ==
    [][(/\ last'.op = "save" /\ hasRange
        /\ ~Defined(Lookup(last'.in.obj, RangeAttr)))
       => last'.err # NoError /\ table' = table]_vars

C17_Witness ==
    /\ last.op = "save" /\ hasRange
    /\ last.in.obj[RangeAttr] = Null
    /\ "name" \in DOMAIN last.in.obj
    /\ last.err # NoError /\ table # {}

(* The items the index TestIndex lists under a value of its hash key *)
Indexed(tbl, o) == {it \in tbl : o.hashKey \in DOMAIN it /\ it[o.hashKey] = o.hashKeyValue}

(* C18: _get with a key that identifies no stored item returns null and    *)
(* raises no error, on the key-lookup path and on the index path           *)
C18_GetMissing ==
    (/\ last.op = "get"
     /\ \/ /\ last.in.index = NoIndex /\ KeyGiven(last.in)
            /\ Stored(table, NamedKey(last.in)) = {}
        \/ /\ last.in.index # NoIndex
            /\ Indexed(table, last.in) = {})
    => last.err = NoError /\ last.result = Nil

C18_Witness ==
    /\ last.op = "get" /\ last.in.index = TestIndex
    /\ table # {} /\ Indexed(table, last.in) = {}
    /\ last.err = NoError /\ last.result = Nil

(* C19: _get with an index name sends one query against that index, never  *)
(* a point-get, and returns the first item of the query result, or null    *)
(* when the result is empty                                                *)
C19_GetByIndex ==
    (last.op = "get" /\ last.in.index # NoIndex)
    => /\ Len(last.reqs) = 1
       /\ last.reqs[1].cmd = "QueryCommand"
       /\ last.reqs[1].IndexName = last.in.index
       /\ last.err = NoError
       /\ LET Items == RemoteQuery(table, last.reqs[1]).Items
          IN /\ Range(Items) = Indexed(table, last.in)
             /\ last.result = IF Len(Items) > 0 THEN Items[1] ELSE Nil

C19_Witness ==
    /\ last.op = "get" /\ last.in.index = TestIndex
    /\ last.err = NoError /\ last.result # Nil
    /\ Cardinality(Indexed(table, last.in)) >= 2

C21_DeleteFrame ==
    [][(last'.op = "delete" /\ KeyGiven(last'.in))
       => /\ last'.err = NoError
          /\ table' = table \ Stored(table, NamedKey(last'.in))
          /\ Stored(table, NamedKey(last'.in)) = {} => table' = table]_vars

(* The items the caller of _paginate has collected over the chain *)
Collected == Concat(last.pages)

(* What the caller holds when the chain ends: every item of the table once *)
ChainComplete ==
    (last.result.lastEvaluatedKey = Nil)
    => Range(Collected) = table /\ Len(Collected) = Cardinality(table)

C26_SaveKeyOnly ==
    (last.op = "save" /\ DOMAIN last.in.obj \subseteq KeyNames(last.in))
    => /\ Len(last.reqs) = 1
       /\ last.reqs[1].cmd = "UpdateCommand"
       /\ last.reqs[1].UpdateExpression = <<>>
       /\ DOMAIN last.reqs[1].ExpressionAttributeNames = {}
       /\ DOMAIN last.reqs[1].ExpressionAttributeValues = {}
       /\ DOMAIN last.reqs[1].Key = KeyNames(last.in)

C26_Witness ==
    /\ last.op = "save" /\ hasRange /\ table # {}
    /\ DOMAIN last.in.obj = {HashAttr, RangeAttr}
    /\ Defined(last.in.obj[RangeAttr])
    /\ Stored(table, SavedKey(last.in)) # {}
    /\ Len(last.reqs) = 1

(* The placeholders the expression of a request uses *)
UsedNames(req) ==
    LET e == IF req.cmd = "UpdateCommand" THEN req.UpdateExpression
             ELSE IF req.cmd = "QueryCommand" THEN req.KeyConditionExpression
             ELSE req.FilterExpression
    IN {e[i].name : i \in 1 .. Len(e)}

UsedValues(req) ==
    LET e == IF req.cmd = "UpdateCommand" THEN req.UpdateExpression
             ELSE IF req.cmd = "QueryCommand" THEN req.KeyConditionExpression
             ELSE req.FilterExpression
    IN UNION {CondValues(e[i]) : i \in 1 .. Len(e)}

(* C28: in every request built by _save, _query, _queryBetween and _list   *)
(* the #name and :value placeholders the expression uses are exactly the   *)
(* keys of ExpressionAttributeNames and ExpressionAttributeValues          *)
C28_Placeholders ==
    (last.op \in {"save", "query", "queryBetween", "list", "getAll"})
    => \A k \in 1 .. Len(last.reqs) :
          /\ UsedNames(last.reqs[k]) = DOMAIN last.reqs[k].ExpressionAttributeNames
          /\ UsedValues(last.reqs[k]) = DOMAIN last.reqs[k].ExpressionAttributeValues

(* C29: _list with limit L >= 1 returns at most L items, every scan page   *)
(* holding at most L items                                                 *)
C29_ListAtMostLimit ==
    (last.op = "list" /\ Defined(last.in.limit))
    => /\ last.err = NoError
       /\ \A k \in 1 .. Len(last.reqs) :
             /\ last.reqs[k].Limit = last.in.limit
             /\ Len(RemoteScan(table, last.reqs[k]).Items) <= last.in.limit
       /\ Len(last.result) <= last.in.limit

C29_Witness ==
    /\ last.op = "list" /\ Defined(last.in.limit) /\ last.err = NoError
    /\ Len(last.reqs) >= 2
    /\ Received(Len(last.reqs)) > last.in.limit
    /\ Len(last.result) <= last.in.limit

(* C30: _list and getAll end after finitely many scans, at most one more   *)
(* than the table has items: every scan after the first starts at the      *)
(* continuation key of the response before it, and none follows a response *)
(* without a continuation key                                              *)
C30_ListTerminates ==
    (last.op \in {"list", "getAll"})
    => /\ last.err = NoError
       /\ Len(last.reqs) >= 1
       /\ Len(last.reqs) <= Cardinality(table) + 1
       /\ last.reqs[1].ExclusiveStartKey = Nil
       /\ \A k \in 2 .. Len(last.reqs) :
             LET before == RemoteScan(table, last.reqs[k - 1])
             IN /\ before.LastEvaluatedKey # Nil
                /\ last.reqs[k].ExclusiveStartKey = before.LastEvaluatedKey
                /\ last.reqs[k].Limit = last.reqs[1].Limit
                /\ last.reqs[k].FilterExpression = last.reqs[1].FilterExpression

C30_Witness ==
    /\ last.op = "list" /\ last.err = NoError
    /\ last.in.filters # NoFilters /\ Defined(last.in.limit)
    /\ Len(last.reqs) >= 3
    /\ RemoteScan(table, last.reqs[Len(last.reqs)]).LastEvaluatedKey = Nil

(* C27: chunk(array, size) with size >= 1 returns consecutive slices whose *)
(* concatenation is array; every slice but the last has size elements, the *)
(* last has 1 to size, and an empty array has no slice, so that _batchGet  *)
(* with no keys sends no request and returns an empty list                 *)
C27_Chunk ==
    /\ (last.op = "chunk")
       => LET slices == last.result
              n == Len(slices)
          IN /\ Concat(slices) = last.in.array
             /\ \A k \in 1 .. n - 1 : Len(slices[k]) = last.in.size
             /\ n > 0 => Len(slices[n]) >= 1 /\ Len(slices[n]) <= last.in.size
             /\ last.in.array = <<>> => slices = <<>>
    /\ (last.op = "batchGet" /\ last.in.items = <<>>)
       => last.reqs = <<>> /\ last.result = <<>> /\ last.err = NoError

C27_Witness ==
    /\ last.op = "chunk" /\ Len(last.result) >= 3
    /\ Len(last.result[Len(last.result)]) < last.in.size
    /\ Len(last.result[1]) = last.in.size

ReadCommands == {"GetCommand", "QueryCommand", "ScanCommand", "BatchGetCommand"}

(* C25: _get, _query, _queryBetween, _batchGet, _list and getAll send read *)
(* requests only and leave the table as it was: no item created, deleted   *)
(* or changed                                                              *)
C25_ReadsOnly ==
    [][(last'.op \in {"get", "query", "queryBetween", "batchGet", "list", "getAll"})
       => /\ table' = table
          /\ \A k \in 1 .. Len(last'.reqs) : last'.reqs[k].cmd \in ReadCommands]_vars

C25_Witness ==
    /\ last.op = "get" /\ last.in.index = NoIndex /\ KeyGiven(last.in)
    /\ last.err = NoError /\ last.result = Nil
    /\ Cardinality(table) >= 2

InFlight == Len(last.reqs) - last.answered

(* C23: when a remote call of _batchGet or _list fails, the operation ends *)
(* at that response with the failure: no request is sent after it (no      *)
(* retry, no further chunk or page) and nothing collected so far is        *)
(* returned                                                                *)
C23_FailsAtOnce ==
    [][/\ (last.pc = "await" /\ last'.resp = "failed")
          => /\ last'.pc = "done" /\ last'.err # NoError
             /\ last'.result = <<>>
             /\ last'.reqs = last.reqs
       /\ (last.pc = "done" /\ last.err # NoError) => last'.reqs = <<>>]_vars

C23_Witness ==
    /\ last.op = "batchGet" /\ last.pc = "done" /\ last.err = RemoteFailure
    /\ Len(last.chunks) = 3 /\ Len(last.reqs) = 2
    /\ Len(last.results) = LIMIT /\ last.result = <<>>

(* C24: _batchGet and _list have at most one request without a response at *)
(* any time, and send a request only when every earlier one was answered   *)
C24_OneInFlight ==
    [][/\ InFlight' \in {0, 1}
       /\ Len(last'.reqs) > Len(last.reqs)
          => InFlight = 0 /\ Len(last'.reqs) = Len(last.reqs) + 1]_vars

C24_Witness ==
    /\ last.op = "list" /\ last.pc = "await"
    /\ Len(last.reqs) = 3 /\ last.answered = 2 /\ last.results # <<>>

====
